---- MODULE Spec2Model ----
(***************************************************************************)
(* Model of the load-generation Worker (package worker) of mhbvr/manul and *)
(* of the job a LoadRunner hands to it (package loadrunner).               *)
(*                                                                         *)
(* The Worker is one loop goroutine that selects over its context, a       *)
(* pacing timer, the token channel, the config channel and the config-read *)
(* channel; jobs run as goroutines that give their token back when they    *)
(* return.  A client goroutine calls SetConfig / GetConfig / Close, and    *)
(* the parent context may be cancelled by the environment.                 *)
(*                                                                         *)
(* Go's select is modelled as Go runs it: a goroutine that finds a case    *)
(* ready takes one of the ready cases, chosen arbitrarily; a goroutine     *)
(* that finds none parks, and the first event that makes a case ready      *)
(* commits the parked goroutine to that case.                              *)
(***************************************************************************)
EXTENDS Integers, Sequences, FiniteSets, TLC

\* Largest value of WithMaxInFlight the model constructs a Worker with.
MaxMax == 1

\* Number of runner ids a LoadTester hands out, and the number of times one
\* Load is closed, that the model follows.
MaxAdds == 2
MaxCloses == 2

\* Number of goroutines that call SetConfig / GetConfig concurrently, and the
\* number of SetConfig calls they make that get past validation.
NumCallers == 2
MaxApplied == 2

\* ------------------------------------------------------------------ inputs

MaxVals == -1..MaxMax
InFlightVals == -1..(MaxMax + 1)
QpsVals == {-1, 0, 1}
TimeoutVals == {-1, 0}
Generators == {"nil", "stable", "exponential"}

Configs == [InFlight : InFlightVals, IntervalGenerator : Generators,
            Qps : QpsVals, Timeout : TimeoutVals]

\* The configuration and limit NewWorker starts from before the options run.
DefaultConfig == [InFlight |-> 1, IntervalGenerator |-> "nil", Qps |-> 0, Timeout |-> 1]
DefaultMaxInFlight == 1

\* Errors, by their text.
workerClosed == "Worker closed"
parentCanceled == "context canceled"
ClosedErrs == {workerClosed, parentCanceled}
InvalidErrs == {"InFlight < 0", "Qps < 0", "Timeout < 0", "InFlight < maxInFlight"}

\* How a job can come back: the remote call succeeds, fails, runs into the
\* per-job deadline or the cancelled context, the job fails before it makes
\* the remote call, or the job panics.
JobOutcomes == {"ok", "remoteErr", "timeout", "earlyErr", "panic"}

\* Values rand.ExpFloat64 can return, by class: exactly 0, or positive.
ExpSamples == {0, 1}

VARIABLES
    phase,            \* "init" | "running" | "failed" | "crashed"
    job,              \* the job NewWorker was given: "nil" | "func"
    newErr,           \* the error NewWorker returned, "" for nil
    maxInFlight,      \* w.maxInFlight
    cfg,              \* w.cfg
    tokens,           \* len(w.tokens)
    currentInFlight,  \* loop local currentInFlight
    timer,            \* loop local timer: "nil" | "armed" | "drained"
    trigger,          \* loop local trigger: TRUE when bound to w.tokens
    cause,            \* context.Cause(w.ctx): "none" or the error text
    loopPc,           \* "start" | "select" | "done" | "grow" | "exited"
    running,          \* jobs launched and not yet returned
    lastJob,          \* what the last returned job did
    cl,               \* the client goroutine; was: <<InFlight, currentInFlight>> as
                      \* the loop held them when it took a config with a higher InFlight
    lastSet,          \* <<c>>: the config of the last SetConfig that returned nil
    maxSeen,          \* <<n>>: the largest InFlight w.cfg has held
    callers,          \* the goroutines that call SetConfig / GetConfig concurrently
    applied,          \* the configs the loop took from cfgChan, in order
    runners,          \* lt.runners: runner id -> [loadType, mode]
    nextRunnerID,     \* lt.nextRunnerID
    objs,             \* every LoadRunner built: id -> [cancelled, cfg, loadCloses]
    idLog,            \* the runner ids AddRunner has formed, in order
    ltRes             \* the last LoadTester call: [op, res, id, mode, arg, list, entries]

workerVars == <<maxInFlight, cfg, tokens, currentInFlight, timer, trigger, loopPc>>
concVars == <<callers, applied>>
ltVars == <<runners, nextRunnerID, objs, idLog, ltRes>>
wVars == <<phase, job, newErr, maxInFlight, cfg, tokens, currentInFlight, timer, trigger,
           cause, loopPc, running, lastJob, cl, lastSet, maxSeen>>
vars == <<wVars, concVars, ltVars>>

Max2(a, b) == IF a >= b THEN a ELSE b

\* --------------------------------------------------------- pure functions

IsValid(c) ==
    IF c.InFlight < 0 THEN "InFlight < 0"
    ELSE IF c.Qps < 0 THEN "Qps < 0"
    ELSE IF c.Timeout < 0 THEN "Timeout < 0"
    ELSE ""

\* Durations in milliseconds; time.Duration(x) truncates towards zero.
TruncDiv(a, b) == IF b > 0 THEN (IF a >= 0 THEN a \div b ELSE -((-a) \div b))
                  ELSE (IF a >= 0 THEN -(a \div (-b)) ELSE (-a) \div (-b))

\* A fixed generator without the qps = 0 case: it always yields an interval.
StableIntervalGeneratorAlwaysPaces(qps) == {1000}

StableIntervalGenerator(qps) ==
    IF qps = 0 THEN {0} ELSE {TruncDiv(1000, qps)}

ExponentialIntervalGenerator(qps) ==
    IF qps = 0 THEN {0} ELSE {TruncDiv(s * 1000, qps) : s \in ExpSamples}

\* The timers setTimer can return for configuration c.
setTimer(c) ==
    IF c.IntervalGenerator = "nil" THEN {"nil"}
    ELSE LET intervals == IF c.IntervalGenerator = "stable"
                          THEN StableIntervalGenerator(c.Qps)
                          ELSE ExponentialIntervalGenerator(c.Qps)
         IN {IF d <= 0 THEN "nil" ELSE "armed" : d \in intervals}

\* The error NewWorker returns ("" for nil) for a job, a limit and a config
\* as the options left them.
NewWorkerErr(jobNil, mx, c) ==
    IF jobNil THEN "job function should be be defined"
    ELSE IF mx < 0 THEN "maxInFlight < 0"
    ELSE IF mx < c.InFlight THEN "cfg.InFlight > maxInFlight limit"
    ELSE ""

\* The number of tokens NewWorker's fill loop puts into the channel.
InitialTokens(c) == IF c.InFlight > 0 THEN c.InFlight ELSE 0

SetConfigErrOffByOne(c, mx) ==
    IF IsValid(c) # "" THEN IsValid(c)
    ELSE IF c.InFlight >= mx THEN "InFlight < maxInFlight"
    ELSE ""

\* The error SetConfig returns before it touches the channel ("" for none).
SetConfigErr(c, mx) ==
    IF IsValid(c) # "" THEN IsValid(c)
    ELSE IF c.InFlight > mx THEN "InFlight < maxInFlight"
    ELSE ""

AdoptedConfigKeepsCeiling(old, c) ==
    [c EXCEPT !.InFlight = Max2(old.InFlight, c.InFlight)]

\* w.cfg after the loop took c from cfgChan.
AdoptedConfig(old, c) == c

\* context.Cause after a cancelCause that lets the last cause win.
CancelCauseLastWins(old, err) == err

\* context.Cause after cancelCause(err): the first cause stays.
CancelCause(old, err) == IF old = "none" THEN err ELSE old

\* The recorder calls one run of the job makes, as success flags.
JobEmissions(outcome) ==
    CASE outcome = "ok" -> <<TRUE>>
      [] outcome \in {"remoteErr", "timeout"} -> <<FALSE>>
      [] OTHER -> <<>>

\* Whether the job's returned error is nil.
JobErrNil(outcome) == outcome = "ok"

\* ------------------------------------------------------------- LoadTester

\* The load types NewLoadTester registers, and the modes generator knows.
LoadRegistry == {"CatPhotoLoad", "CatPhotoStreamLoad"}
Modes == {"asap", "exponential", "static"}

\* generator(mode): the error ("" for nil) and the interval generator.
GeneratorErr(mode) == IF mode \in Modes THEN "" ELSE "unknown mode"
generator(mode) ==
    CASE mode = "exponential" -> "exponential"
      [] mode = "static" -> "stable"
      [] OTHER -> "nil"

\* fmt.Sprintf("%s-%d", loadType, n): the pair stands for the string, which
\* is split back into the pair at its last hyphen.
RunnerID(loadType, n) == <<loadType, n>>

\* The decimal digits "%d" prints for n >= 0, and byte-wise string order on
\* digit strings.
RECURSIVE Digits(_)
Digits(n) == IF n < 10 THEN <<n>> ELSE Append(Digits(n \div 10), n % 10)

RECURSIVE LexLess(_, _)
LexLess(a, b) ==
    IF b = <<>> THEN FALSE
    ELSE IF a = <<>> THEN TRUE
    ELSE IF a[1] # b[1] THEN a[1] < b[1]
    ELSE LexLess(Tail(a), Tail(b))

\* The registered load type names in string order: they part at their ninth
\* byte, 'L' before 'S'.
LoadTypeRank(t) == IF t = "CatPhotoLoad" THEN 1 ELSE 2

\* The comparison turned round.
IdLessDescending(a, b) ==
    IF a[1] # b[1] THEN LoadTypeRank(b[1]) < LoadTypeRank(a[1])
    ELSE LexLess(Digits(b[2]), Digits(a[2]))

\* res[i].Id < res[j].Id on the strings the ids stand for.
IdLess(a, b) ==
    IF a[1] # b[1] THEN LoadTypeRank(a[1]) < LoadTypeRank(b[1])
    ELSE LexLess(Digits(a[2]), Digits(b[2]))

\* sort.Slice by Id over a set of distinct ids.
RECURSIVE SortedIds(_)
SortedIds(S) ==
    IF S = {} THEN <<>>
    ELSE LET m == CHOOSE x \in S : \A y \in S \ {x} : IdLess(x, y)
         IN <<m>> \o SortedIds(S \ {m})

\* A counter that is not advanced.
NextRunnerIDStays(n) == n

\* lt.nextRunnerID++
NextRunnerID(n) == n + 1

NoRes == [op |-> "none", res |-> "", id |-> <<>>, mode |-> "", arg |-> <<>>, list |-> {},
          entries |-> <<>>, held |-> "none"]

\* No LoadTester call has been made: NewLoadTester's empty registry.
NoLoadTester ==
    /\ runners = [i \in {} |-> NoRes]
    /\ nextRunnerID = 0
    /\ objs = [i \in {} |-> NoRes]
    /\ idLog = <<>>
    /\ ltRes = NoRes

\* ------------------------------------------------------------------- Init

NoCall == [pc |-> "idle", op |-> "none", valid |-> TRUE, arg |-> <<>>, res |-> "", out |-> <<>>,
           was |-> <<>>]
NoJob == [errNil |-> TRUE, emissions |-> <<>>]

\* The concurrent callers; seen is the set of values w.cfg has held since the
\* caller's GetConfig was invoked.
Callers == 1..NumCallers
NoCaller == [pc |-> "idle", op |-> "none", arg |-> <<>>, res |-> "", out |-> <<>>, seen |-> {}]

\* The configs the concurrent callers pass: two that differ in every field but
\* Timeout, and one above the default limit.
ConcConfigs ==
    {[InFlight |-> 0, IntervalGenerator |-> "nil", Qps |-> 0, Timeout |-> 0],
     [InFlight |-> 1, IntervalGenerator |-> "stable", Qps |-> 1, Timeout |-> 0],
     [InFlight |-> 2, IntervalGenerator |-> "nil", Qps |-> 0, Timeout |-> 0]}

Init ==
    /\ phase = "init"
    /\ job = "func"
    /\ newErr = ""
    /\ maxInFlight = DefaultMaxInFlight
    /\ cfg = DefaultConfig
    /\ tokens = 0
    /\ currentInFlight = 0
    /\ timer = "nil"
    /\ trigger = FALSE
    /\ cause = "none"
    /\ loopPc = "start"
    /\ running = 0
    /\ lastJob = NoJob
    /\ cl = NoCall
    /\ lastSet = <<>>
    /\ maxSeen = <<>>
    /\ callers = [p \in Callers |-> NoCaller]
    /\ applied = <<>>
    /\ NoLoadTester

\* -------------------------------------------------------------- NewWorker

\* NewWorker(ctx, job, opts...): mxOpt and cfgOpt are <<>> when the option is
\* not given and <<v>> when WithMaxInFlight(v) / WithConfig(v) is.
NewWorker(jobNil, mxOpt, cfgOpt) ==
    /\ phase = "init"
    /\ LET mx == IF mxOpt = <<>> THEN DefaultMaxInFlight ELSE mxOpt[1]
           c == IF cfgOpt = <<>> THEN DefaultConfig ELSE cfgOpt[1]
           err == NewWorkerErr(jobNil, mx, c)
       IN /\ job' = IF jobNil THEN "nil" ELSE "func"
          /\ newErr' = err
          /\ IF jobNil
             THEN UNCHANGED <<maxInFlight, cfg>>
             ELSE maxInFlight' = mx /\ cfg' = c
          /\ IF err # ""
             THEN /\ phase' = "failed"
                  /\ UNCHANGED <<tokens, maxSeen>>
             ELSE /\ phase' = "running"
                  /\ tokens' = InitialTokens(c)
                  /\ maxSeen' = <<c.InFlight>>
    /\ UNCHANGED <<currentInFlight, timer, trigger, cause, loopPc, running,
                   lastJob, cl, lastSet>>
    /\ UNCHANGED concVars
    /\ UNCHANGED ltVars

\* ------------------------------------------------------------------- loop

Up == phase = "running"
CtxDone == cause # "none"

\* The cases of the loop's select that can proceed.
TimerReady == timer = "armed"
TriggerReady == trigger /\ tokens > 0
CfgReady == cl.pc = "sendCfg"
ReadReady == cl.pc = "sendRead"
LoopParked == loopPc = "select" /\ ~CtxDone /\ ~TimerReady /\ ~TriggerReady
              /\ ~CfgReady /\ ~ReadReady

\* The first lines of loop(): the timer, the trigger, currentInFlight.
LoopStart ==
    /\ Up /\ loopPc = "start"
    /\ \E t \in setTimer(cfg) :
         /\ timer' = t
         /\ trigger' = (t = "nil")
    /\ currentInFlight' = cfg.InFlight
    /\ loopPc' = "select"
    /\ UNCHANGED <<phase, job, newErr, maxInFlight, cfg, tokens, cause, running, lastJob,
                   cl, lastSet, maxSeen>>
    /\ UNCHANGED concVars
    /\ UNCHANGED ltVars

\* case <-w.ctx.Done(): return.
LoopDone ==
    /\ Up
    /\ \/ loopPc = "done"
       \/ loopPc = "select" /\ CtxDone
    /\ loopPc' = "exited"
    /\ UNCHANGED <<phase, job, newErr, maxInFlight, cfg, tokens, currentInFlight, timer,
                   trigger, cause, running, lastJob, cl, lastSet, maxSeen>>
    /\ UNCHANGED concVars
    /\ UNCHANGED ltVars

\* case <-timer: the armed one-shot timer fires at a time of its own and its
\* value is taken; the trigger is bound.  The drained channel never yields
\* again.
LoopTimer ==
    /\ Up /\ loopPc = "select" /\ TimerReady
    /\ timer' = "drained"
    /\ trigger' = TRUE
    /\ UNCHANGED <<phase, job, newErr, maxInFlight, cfg, tokens, currentInFlight, cause,
                   loopPc, running, lastJob, cl, lastSet, maxSeen>>
    /\ UNCHANGED concVars
    /\ UNCHANGED ltVars

\* A drop that leaves currentInFlight as it is.
AfterDropKeeps(n) == n

\* currentInFlight--
AfterDrop(n) == n - 1

\* case <-trigger, with a downsize pending: the token is dropped.
LoopDrop ==
    /\ Up /\ loopPc = "select" /\ TriggerReady
    /\ currentInFlight > cfg.InFlight
    /\ tokens' = tokens - 1
    /\ currentInFlight' = AfterDrop(currentInFlight)
    /\ UNCHANGED <<phase, job, newErr, maxInFlight, cfg, timer, trigger, cause, loopPc,
                   running, lastJob, cl, lastSet, maxSeen>>
    /\ UNCHANGED concVars
    /\ UNCHANGED ltVars

\* A launch that leaves the trigger as it is.
TriggerAfterLaunchKeeps(t, tr) == tr

\* if timer != nil { trigger = nil; ... } for the timer t and the trigger tr.
TriggerAfterLaunch(t, tr) == IF t # "nil" THEN FALSE ELSE tr

\* case <-trigger otherwise: go w.do(...), and with a timer the trigger is
\* unbound and the timer set again.
LoopLaunch ==
    /\ Up /\ loopPc = "select" /\ TriggerReady
    /\ ~(currentInFlight > cfg.InFlight)
    /\ tokens' = tokens - 1
    /\ running' = running + 1
    /\ trigger' = TriggerAfterLaunch(timer, trigger)
    /\ IF timer # "nil"
       THEN \E t \in setTimer(cfg) : timer' = t
       ELSE UNCHANGED timer
    /\ UNCHANGED <<phase, job, newErr, maxInFlight, cfg, currentInFlight, cause, loopPc,
                   lastJob, cl, lastSet, maxSeen>>
    /\ UNCHANGED concVars
    /\ UNCHANGED ltVars

\* A grow loop that counts up from the InFlight of the replaced config.
GrowNeedFromOldConfig(c, old, cur) ==
    IF c.InFlight > old.InFlight THEN c.InFlight - old.InFlight ELSE 0

\* The number of rounds of for cfg.InFlight > currentInFlight, for the
\* received config c, the replaced config old and currentInFlight cur.
GrowNeed(c, old, cur) == IF c.InFlight > cur THEN c.InFlight - cur ELSE 0

\* The body of case cfg := <-w.cfgChan for the received config c: the loop
\* adopts the config, grows the pool and sets the timer again.  The grow loop
\* blocks for good when the channel is full before it is done.
Adopt(c) ==
    LET new == AdoptedConfig(cfg, c)
        need == GrowNeed(c, cfg, currentInFlight)
        room == maxInFlight - tokens
        put == IF need <= room THEN need ELSE room
    IN /\ cfg' = new
       /\ maxSeen' = <<Max2(maxSeen[1], new.InFlight)>>
       /\ tokens' = tokens + put
       /\ currentInFlight' = currentInFlight + put
       /\ IF need > room
          THEN /\ loopPc' = "grow"
               /\ UNCHANGED <<timer, trigger>>
          ELSE /\ loopPc' = "select"
               /\ \E t \in setTimer(new) :
                    /\ timer' = t
                    /\ trigger' = IF t = "nil" THEN TRUE ELSE trigger

\* case cfg := <-w.cfgChan: SetConfig's send completes and returns nil.
LoopSetConfig ==
    /\ Up /\ loopPc = "select" /\ CfgReady
    /\ Adopt(cl.arg[1])
    /\ cl' = [cl EXCEPT !.pc = "idle", !.arg = <<>>, !.res = "ok",
                         !.was = IF cl.arg[1].InFlight > cfg.InFlight
                                 THEN <<cfg.InFlight, currentInFlight>> ELSE <<>>]
    /\ lastSet' = <<cl.arg[1]>>
    /\ UNCHANGED <<phase, job, newErr, maxInFlight, cause, running, lastJob>>
    /\ UNCHANGED concVars
    /\ UNCHANGED ltVars

\* What the loop sends into the reply channel for the config it holds.
ReadReplyStale(c) == DefaultConfig

ReadReply(c) == c

\* case respChan := <-w.readCfgChan: the config goes into the reply channel.
LoopGetConfig ==
    /\ Up /\ loopPc = "select" /\ ReadReady
    /\ cl' = [cl EXCEPT !.pc = "gotResp", !.out = <<ReadReply(cfg)>>]
    /\ UNCHANGED <<phase, job, newErr, maxInFlight, cfg, tokens, currentInFlight, timer,
                   trigger, cause, loopPc, running, lastJob, lastSet, maxSeen>>
    /\ UNCHANGED concVars
    /\ UNCHANGED ltVars

\* -------------------------------------------------------------------- job

\* One job goroutine comes back: w.job returns and the deferred send gives
\* the token back; the send waits while the channel is full.
JobReturn(outcome) ==
    /\ Up /\ running > 0 /\ tokens < maxInFlight
    /\ outcome # "panic"
    /\ running' = running - 1
    /\ tokens' = tokens + 1
    /\ lastJob' = [errNil |-> JobErrNil(outcome), emissions |-> JobEmissions(outcome)]
    /\ UNCHANGED <<phase, job, newErr, maxInFlight, cfg, currentInFlight, timer, trigger,
                   cause, loopPc, cl, lastSet, maxSeen>>
    /\ UNCHANGED concVars
    /\ UNCHANGED ltVars

\* w.job panics in its goroutine: do's deferred send runs first, nothing
\* recovers, and the Go runtime ends the process with every goroutine in it.
JobPanic ==
    /\ Up /\ running > 0 /\ tokens < maxInFlight
    /\ phase' = "crashed"
    /\ running' = 0
    /\ tokens' = 0
    /\ currentInFlight' = 0
    /\ timer' = "nil"
    /\ trigger' = FALSE
    /\ loopPc' = "exited"
    /\ cl' = NoCall
    /\ lastJob' = [errNil |-> JobErrNil("panic"), emissions |-> JobEmissions("panic")]
    /\ lastSet' = <<>>
    /\ UNCHANGED <<job, newErr, maxInFlight, cfg, cause, maxSeen>>
    /\ UNCHANGED concVars
    /\ UNCHANGED ltVars

\* ----------------------------------------------------------------- client

\* The constraints the specification puts on a configuration for a limit mx.
\* The client records in cl.valid whether the config it passes meets them.
SpecValid(c, mx) ==
    /\ 0 <= c.InFlight /\ c.InFlight <= mx
    /\ c.Qps >= 0
    /\ c.Timeout >= 0

\* case <-w.ctx.Done() in the selects of SetConfig and GetConfig.
CallerDoneNever == FALSE

CallerDone == cause # "none"

\* w.SetConfig(&c): the checks, then the select on ctx.Done and the send.
SetConfigCall(c) ==
    /\ Up /\ cl.pc = "idle"
    /\ LET err == SetConfigErr(c, maxInFlight)
           call == [NoCall EXCEPT !.op = "SetConfig", !.valid = SpecValid(c, maxInFlight)]
       IN cl' = IF err # "" THEN [call EXCEPT !.res = err]
                ELSE IF CallerDone THEN [call EXCEPT !.res = cause]
                ELSE [call EXCEPT !.pc = "sendCfg", !.arg = <<c>>]
    /\ UNCHANGED <<phase, job, newErr, maxInFlight, cfg, tokens, currentInFlight, timer,
                   trigger, cause, loopPc, running, lastJob, lastSet, maxSeen>>
    /\ UNCHANGED concVars
    /\ UNCHANGED ltVars

\* w.GetConfig(), up to its first select.
GetConfigCall ==
    /\ Up /\ cl.pc = "idle"
    /\ cl' = IF CallerDone
             THEN [NoCall EXCEPT !.op = "GetConfig", !.res = cause]
             ELSE [NoCall EXCEPT !.op = "GetConfig", !.pc = "sendRead"]
    /\ UNCHANGED <<phase, job, newErr, maxInFlight, cfg, tokens, currentInFlight, timer,
                   trigger, cause, loopPc, running, lastJob, lastSet, maxSeen>>
    /\ UNCHANGED concVars
    /\ UNCHANGED ltVars

\* w.GetConfig(), its second select: the reply is there, the context may be
\* done as well.
GetConfigReturn ==
    /\ Up /\ cl.pc = "gotResp"
    /\ \/ cl' = [cl EXCEPT !.pc = "idle", !.res = "ok"]
       \/ /\ CallerDone
          /\ cl' = [cl EXCEPT !.pc = "idle", !.res = cause, !.out = <<>>]
    /\ UNCHANGED <<phase, job, newErr, maxInFlight, cfg, tokens, currentInFlight, timer,
                   trigger, cause, loopPc, running, lastJob, lastSet, maxSeen>>
    /\ UNCHANGED concVars
    /\ UNCHANGED ltVars

\* The context is cancelled with err: a parked loop and a parked caller are
\* committed to their ctx.Done case.  idleCl is what an idle client goroutine
\* becomes (the record of its Close call, or cl itself).
Cancel(err, idleCl) ==
    /\ cause' = CancelCause(cause, err)
    /\ loopPc' = IF LoopParked /\ cause' # "none" THEN "done" ELSE loopPc
    /\ cl' = IF cl.pc \in {"sendCfg", "sendRead"} /\ ~CtxDone /\ cause' # "none"
             THEN [cl EXCEPT !.pc = "idle", !.arg = <<>>, !.res = cause']
             ELSE IF cl.pc = "idle" THEN idleCl ELSE cl

\* w.Close(), by the client goroutine when it is idle and by another
\* goroutine otherwise.
Close ==
    /\ Up
    /\ Cancel(workerClosed, [NoCall EXCEPT !.op = "Close"])
    /\ UNCHANGED <<phase, job, newErr, maxInFlight, cfg, tokens, currentInFlight, timer,
                   trigger, running, lastJob, lastSet, maxSeen>>
    /\ UNCHANGED concVars
    /\ UNCHANGED ltVars

\* The context given to NewWorker is cancelled.
ParentCancel ==
    /\ Up /\ ~CtxDone
    /\ Cancel(parentCanceled, cl)
    /\ UNCHANGED <<phase, job, newErr, maxInFlight, cfg, tokens, currentInFlight, timer,
                   trigger, running, lastJob, lastSet, maxSeen>>
    /\ UNCHANGED concVars
    /\ UNCHANGED ltVars

\* ------------------------------------------------------------------- Next

Next ==
    \/ \E jobNil \in BOOLEAN, mxOpt \in {<<>>} \cup {<<m>> : m \in MaxVals},
          cfgOpt \in {<<>>} \cup {<<c>> : c \in Configs} :
          NewWorker(jobNil, mxOpt, cfgOpt)
    \/ LoopStart
    \/ LoopDone
    \/ LoopTimer
    \/ LoopDrop
    \/ LoopLaunch
    \/ LoopSetConfig
    \/ LoopGetConfig
    \/ \E o \in JobOutcomes : JobReturn(o)
    \/ JobPanic
    \/ \E c \in Configs : SetConfigCall(c)
    \/ GetConfigCall
    \/ GetConfigReturn
    \/ Close
    \/ ParentCancel

Spec == Init /\ [][Next]_vars

\* --------------------------------------------------------------- liveness

\* The Worker that keeps running: nothing cancels its context, no job
\* panics, every job returns.  It is built with the largest limit and a
\* config that is ASAP or paced by the exponential generator, and is given
\* such configs.
LiveConfigs == [InFlight : -1..MaxMax, IntervalGenerator : {"nil", "exponential"},
                Qps : {1}, Timeout : {0}]

NextLive ==
    \/ \E c \in LiveConfigs : NewWorker(FALSE, <<MaxMax>>, <<c>>)
    \/ LoopStart
    \/ LoopTimer
    \/ LoopDrop
    \/ LoopLaunch
    \/ LoopSetConfig
    \/ JobReturn("ok")
    \/ \E c \in LiveConfigs : SetConfigCall(c)

\* The loop goroutine is scheduled and its select takes a case that stays
\* ready, an armed timer fires, and a job returns.
SpecLive ==
    /\ Init /\ [][NextLive]_vars
    /\ WF_vars(LoopStart) /\ WF_vars(LoopTimer) /\ WF_vars(LoopDrop)
    /\ WF_vars(LoopLaunch) /\ WF_vars(LoopSetConfig) /\ WF_vars(JobReturn("ok"))

\* The Worker whose jobs return and do not panic, and whose context is
\* cancelled at some time by Close or by the parent; its select takes the
\* ctx.Done case when that stays ready.
NextExit ==
    \/ NextLive
    \/ LoopDone
    \/ Close
    \/ ParentCancel

SpecExit ==
    /\ Init /\ [][NextExit]_vars
    /\ WF_vars(LoopStart) /\ WF_vars(LoopDone) /\ WF_vars(LoopTimer) /\ WF_vars(LoopDrop)
    /\ WF_vars(LoopLaunch) /\ WF_vars(LoopSetConfig) /\ WF_vars(JobReturn("ok"))

\* ------------------------------------------------------ concurrent callers

\* A Worker built by NewWorker(ctx, job), with the defaults, whose loop
\* goroutine has not run yet.
ConcInit ==
    /\ phase = "running"
    /\ job = "func"
    /\ newErr = ""
    /\ maxInFlight = DefaultMaxInFlight
    /\ cfg = DefaultConfig
    /\ tokens = InitialTokens(DefaultConfig)
    /\ currentInFlight = 0
    /\ timer = "nil"
    /\ trigger = FALSE
    /\ cause = "none"
    /\ loopPc = "start"
    /\ running = 0
    /\ lastJob = NoJob
    /\ cl = NoCall
    /\ lastSet = <<>>
    /\ maxSeen = <<DefaultConfig.InFlight>>
    /\ callers = [p \in Callers |-> NoCaller]
    /\ applied = <<>>
    /\ NoLoadTester

\* SetConfig calls that are waiting in their select or were taken by the loop.
Accepted == Len(applied) + Cardinality({p \in Callers : callers[p].pc = "sendCfg"})

\* The loop's select has no case that can proceed.
ConcLoopParked == loopPc = "select" /\ ~CtxDone /\ ~TimerReady /\ ~TriggerReady
                  /\ \A p \in Callers : callers[p].pc \notin {"sendCfg", "sendRead"}

\* Caller p runs w.SetConfig(&c) up to its select.
ConcSetConfigCall(p, c) ==
    /\ Up /\ callers[p].pc = "idle" /\ Accepted < MaxApplied
    /\ LET err == SetConfigErr(c, maxInFlight)
           call == [NoCaller EXCEPT !.op = "SetConfig"]
       IN callers' = [callers EXCEPT ![p] =
                        IF err # "" THEN [call EXCEPT !.res = err]
                        ELSE IF CallerDone THEN [call EXCEPT !.res = cause]
                        ELSE [call EXCEPT !.pc = "sendCfg", !.arg = <<c>>]]
    /\ UNCHANGED <<phase, job, newErr, maxInFlight, cfg, tokens, currentInFlight, timer,
                   trigger, cause, loopPc, running, lastJob, cl, lastSet, maxSeen, applied>>
    /\ UNCHANGED ltVars

\* case cfg := <-w.cfgChan with caller p as the sender: p's SetConfig returns
\* nil, and the callers inside a GetConfig have lived through one more config.
ConcLoopSetConfig(p) ==
    /\ Up /\ loopPc = "select" /\ callers[p].pc = "sendCfg"
    /\ Adopt(callers[p].arg[1])
    /\ applied' = Append(applied, callers[p].arg[1])
    /\ callers' = [q \in Callers |->
                     IF q = p
                     THEN [callers[q] EXCEPT !.pc = "idle", !.arg = <<>>, !.res = "ok"]
                     ELSE IF callers[q].pc \in {"sendRead", "gotResp"}
                     THEN [callers[q] EXCEPT !.seen = @ \cup {cfg'}]
                     ELSE callers[q]]
    /\ UNCHANGED <<phase, job, newErr, maxInFlight, cause, running, lastJob, cl, lastSet>>
    /\ UNCHANGED ltVars

\* Caller p runs w.GetConfig() up to its first select.
ConcGetConfigCall(p) ==
    /\ Up /\ callers[p].pc = "idle"
    /\ callers' = [callers EXCEPT ![p] =
                     IF CallerDone
                     THEN [NoCaller EXCEPT !.op = "GetConfig", !.res = cause]
                     ELSE [NoCaller EXCEPT !.op = "GetConfig", !.pc = "sendRead",
                                           !.seen = {cfg}]]
    /\ UNCHANGED <<phase, job, newErr, maxInFlight, cfg, tokens, currentInFlight, timer,
                   trigger, cause, loopPc, running, lastJob, cl, lastSet, maxSeen, applied>>
    /\ UNCHANGED ltVars

\* case respChan := <-w.readCfgChan with caller p as the sender.
ConcLoopGetConfig(p) ==
    /\ Up /\ loopPc = "select" /\ callers[p].pc = "sendRead"
    /\ callers' = [callers EXCEPT ![p] = [@ EXCEPT !.pc = "gotResp",
                                                   !.out = <<ReadReply(cfg)>>]]
    /\ UNCHANGED <<phase, job, newErr, maxInFlight, cfg, tokens, currentInFlight, timer,
                   trigger, cause, loopPc, running, lastJob, cl, lastSet, maxSeen, applied>>
    /\ UNCHANGED ltVars

\* Caller p's second select in GetConfig.
ConcGetConfigReturn(p) ==
    /\ Up /\ callers[p].pc = "gotResp"
    /\ \/ callers' = [callers EXCEPT ![p] = [@ EXCEPT !.pc = "idle", !.res = "ok"]]
       \/ /\ CallerDone
          /\ callers' = [callers EXCEPT ![p] = [@ EXCEPT !.pc = "idle", !.res = cause,
                                                         !.out = <<>>]]
    /\ UNCHANGED <<phase, job, newErr, maxInFlight, cfg, tokens, currentInFlight, timer,
                   trigger, cause, loopPc, running, lastJob, cl, lastSet, maxSeen, applied>>
    /\ UNCHANGED ltVars

\* w.Close() while callers run: a parked loop and the callers parked in their
\* first select are committed to ctx.Done.
ConcClose ==
    /\ Up
    /\ cause' = CancelCause(cause, workerClosed)
    /\ loopPc' = IF ConcLoopParked THEN "done" ELSE loopPc
    /\ callers' = [q \in Callers |->
                     IF callers[q].pc \in {"sendCfg", "sendRead"} /\ ~CtxDone
                     THEN [callers[q] EXCEPT !.pc = "idle", !.arg = <<>>, !.res = cause']
                     ELSE callers[q]]
    /\ UNCHANGED <<phase, job, newErr, maxInFlight, cfg, tokens, currentInFlight, timer,
                   trigger, running, lastJob, cl, lastSet, maxSeen, applied>>
    /\ UNCHANGED ltVars

\* The Worker with concurrent callers, for as long as no job panics; do
\* drops what the job returns, so one way of returning stands for all.
NextConc ==
    \/ LoopStart
    \/ LoopDone
    \/ LoopTimer
    \/ LoopDrop
    \/ LoopLaunch
    \/ JobReturn("ok")
    \/ \E p \in Callers, c \in ConcConfigs : ConcSetConfigCall(p, c)
    \/ \E p \in Callers : ConcLoopSetConfig(p)
    \/ \E p \in Callers : ConcGetConfigCall(p)
    \/ \E p \in Callers : ConcLoopGetConfig(p)
    \/ \E p \in Callers : ConcGetConfigReturn(p)
    \/ ConcClose

SpecConc == ConcInit /\ [][NextConc]_vars

\* ------------------------------------------------------ LoadTester actions

\* What the callers of the LoadTester pass.
LoadTypeInputs == {"CatPhotoLoad", "NoSuchLoad"}
ModeInputs == {"asap", "static", "bogus"}
LtQps == 1
LtTimeout == 0
IdInputs == {RunnerID(t, n) : t \in LoadTypeInputs \cap LoadRegistry, n \in 0..MaxAdds}

\* NewLoadTester(maxInFlight), and the inFlight values callers pass: the
\* largest the Worker accepts and the smallest it rejects.
LtMaxInFlight == 1
LtInFlightVals == LtMaxInFlight..(LtMaxInFlight + 1)
lrClosed == "LoadRunner closed"

\* The WorkerConfig AddRunner and UpdateRunner build.
LtConfig(inFlight, mode) ==
    [InFlight |-> inFlight, IntervalGenerator |-> generator(mode),
     Qps |-> LtQps, Timeout |-> LtTimeout]

\* Maps as functions: m[k] = v added, k deleted.
Put(m, k, v) == [i \in DOMAIN m \cup {k} |-> IF i = k THEN v ELSE m[i]]
Drop(m, k) == [i \in DOMAIN m \ {k} |-> m[i]]

\* NewLoadRunner's error ("" for nil): load.Init, then worker.NewWorker.
NewLoadRunnerErr(initFails, c) ==
    IF initFails THEN "failed to initialize load"
    ELSE IF NewWorkerErr(FALSE, LtMaxInFlight, c) # "" THEN "failed to create worker"
    ELSE ""

\* AddRunner stores the runner whatever NewLoadRunner returned.
RegistersAlways(err) == TRUE

\* AddRunner reaches lt.runners[runnerID] = ... only past `if err != nil`.
Registers(err) == err = ""

\* lr.SetConfig on runner object o: the Worker's checks, then its select.
RunnerSetConfigErr(o, c) ==
    IF SetConfigErr(c, LtMaxInFlight) # "" THEN SetConfigErr(c, LtMaxInFlight)
    ELSE IF o.cancelled THEN lrClosed
    ELSE ""

\* The mode tag is replaced whatever SetConfig returned.
ModeAfterUpdateAlways(old, mode, err) == mode

\* if err == nil { info.mode = mode }
ModeAfterUpdate(old, mode, err) == IF err = "" THEN mode ELSE old

\* How lt.mu is held at the moment the operation calls into a runner's
\* Worker: UpdateRunner calls SetConfig between lt.mu.Lock() and the deferred
\* Unlock, GetRunnersInfo calls GetInfo between RLock() and the deferred
\* RUnlock. ltRes.held records it for the last operation ("none" when the
\* operation made no such call).
MuAtWorkerCall(op) ==
    IF op = "UpdateRunner" THEN "Lock"
    ELSE IF op = "GetRunnersInfo" THEN "RLock"
    ELSE "none"

\* lr.Close(): lr.cancel(lrClosed), then lr.load.Close().
ClosedRunner(o) == [o EXCEPT !.cancelled = TRUE, !.loadCloses = @ + 1]

\* The registry is left as it is.
AfterRemoveKeeps(rs, id) == rs

\* delete(lt.runners, runnerID)
AfterRemove(rs, id) == Drop(rs, id)

\* The worker variables of the LoadTester specifications stay at rest; each
\* runner's Worker is followed in objs by its context and its config.
LtInit ==
    /\ phase = "init"
    /\ job = "func"
    /\ newErr = ""
    /\ maxInFlight = DefaultMaxInFlight
    /\ cfg = DefaultConfig
    /\ tokens = 0
    /\ currentInFlight = 0
    /\ timer = "nil"
    /\ trigger = FALSE
    /\ cause = "none"
    /\ loopPc = "start"
    /\ running = 0
    /\ lastJob = NoJob
    /\ cl = NoCall
    /\ lastSet = <<>>
    /\ maxSeen = <<>>
    /\ callers = [p \in Callers |-> NoCaller]
    /\ applied = <<>>
    /\ NoLoadTester

AddRunner(loadType, inFlight, mode, initFails) ==
    /\ nextRunnerID < MaxAdds
    /\ IF loadType \notin LoadRegistry
       THEN /\ ltRes' = [NoRes EXCEPT !.op = "AddRunner", !.res = "unknown load type"]
            /\ UNCHANGED <<runners, nextRunnerID, objs, idLog>>
       ELSE IF GeneratorErr(mode) # ""
       THEN /\ ltRes' = [NoRes EXCEPT !.op = "AddRunner", !.res = GeneratorErr(mode)]
            /\ UNCHANGED <<runners, nextRunnerID, objs, idLog>>
       ELSE LET id == RunnerID(loadType, nextRunnerID)
                c == LtConfig(inFlight, mode)
                err == NewLoadRunnerErr(initFails, c)
            IN /\ nextRunnerID' = NextRunnerID(nextRunnerID)
               /\ idLog' = Append(idLog, id)
               /\ ltRes' = [NoRes EXCEPT !.op = "AddRunner", !.id = <<id>>,
                                         !.res = IF err = "" THEN "ok" ELSE err]
               /\ IF Registers(err)
                  THEN /\ runners' = Put(runners, id, [loadType |-> loadType, mode |-> mode])
                       /\ objs' = Put(objs, id, [cancelled |-> FALSE, cfg |-> c,
                                                 loadCloses |-> 0])
                  ELSE UNCHANGED <<runners, objs>>
    /\ UNCHANGED <<wVars, concVars>>

RemoveRunner(id) ==
    /\ IF id \notin DOMAIN runners
       THEN /\ ltRes' = [NoRes EXCEPT !.op = "RemoveRunner", !.id = <<id>>,
                                      !.res = "not found"]
            /\ UNCHANGED <<runners, objs>>
       ELSE /\ objs' = [objs EXCEPT ![id] = ClosedRunner(@)]
            /\ runners' = AfterRemove(runners, id)
            /\ ltRes' = [NoRes EXCEPT !.op = "RemoveRunner", !.id = <<id>>, !.res = "ok"]
    /\ UNCHANGED <<nextRunnerID, idLog, wVars, concVars>>

UpdateRunner(id, inFlight, mode) ==
    /\ LET res == [NoRes EXCEPT !.op = "UpdateRunner", !.id = <<id>>, !.mode = mode,
                                !.arg = <<LtConfig(inFlight, mode)>>]
       IN IF GeneratorErr(mode) # ""
          THEN /\ ltRes' = [res EXCEPT !.res = GeneratorErr(mode)]
               /\ UNCHANGED <<runners, objs>>
          ELSE IF id \notin DOMAIN runners
          THEN /\ ltRes' = [res EXCEPT !.res = "not found"]
               /\ UNCHANGED <<runners, objs>>
          ELSE LET c == LtConfig(inFlight, mode)
                   err == RunnerSetConfigErr(objs[id], c)
               IN /\ objs' = IF err = "" THEN [objs EXCEPT ![id].cfg = c] ELSE objs
                  /\ runners' = [runners EXCEPT ![id].mode = ModeAfterUpdate(@, mode, err)]
                  /\ ltRes' = [res EXCEPT !.res = IF err = "" THEN "ok" ELSE err,
                                          !.held = MuAtWorkerCall("UpdateRunner")]
    /\ UNCHANGED <<nextRunnerID, idLog, wVars, concVars>>

\* The Status GetRunnersInfo builds for the runner registered under id.
Status(id) == [Id |-> id, LoadType |-> runners[id].loadType, Mode |-> runners[id].mode,
               WorkerCfg |-> objs[id].cfg]

\* A GetInfo that never fails.
GetInfoErrNever(o) == ""

\* lr.GetInfo on runner object o ("" for nil): the Worker's GetConfig returns
\* the cause of its context, which is the LoadRunner's, once that is cancelled.
GetInfoErr(o) == IF o.cancelled THEN lrClosed ELSE ""

\* GetRunnersInfo: GetInfo of a runner whose context is cancelled fails, and
\* the first failure is returned in place of the list.
GetRunnersInfo ==
    /\ LET res == [NoRes EXCEPT !.op = "GetRunnersInfo",
                                !.held = IF DOMAIN runners = {} THEN "none"
                                         ELSE MuAtWorkerCall("GetRunnersInfo")]
       IN ltRes' = IF \E id \in DOMAIN runners : GetInfoErr(objs[id]) # ""
                   THEN [res EXCEPT !.res = lrClosed]
                   ELSE [res EXCEPT !.res = "ok",
                                    !.list = DOMAIN runners,
                                    !.entries = [i \in 1..Cardinality(DOMAIN runners) |->
                                                   Status(SortedIds(DOMAIN runners)[i])]]
    /\ UNCHANGED <<runners, nextRunnerID, objs, idLog, wVars, concVars>>

\* LoadTester.Close: every registered runner is closed.
LtClose ==
    /\ \A id \in DOMAIN runners : objs[id].loadCloses < MaxCloses
    /\ objs' = [id \in DOMAIN objs |->
                  IF id \in DOMAIN runners THEN ClosedRunner(objs[id]) ELSE objs[id]]
    /\ ltRes' = [NoRes EXCEPT !.op = "Close", !.res = "ok"]
    /\ UNCHANGED <<runners, nextRunnerID, idLog, wVars, concVars>>

NextLt ==
    \/ \E t \in LoadTypeInputs, n \in LtInFlightVals, m \in ModeInputs, f \in BOOLEAN :
          AddRunner(t, n, m, f)
    \/ \E id \in IdInputs : RemoveRunner(id)
    \/ \E id \in IdInputs, n \in LtInFlightVals, m \in ModeInputs : UpdateRunner(id, n, m)
    \/ GetRunnersInfo
    \/ LtClose

SpecLt == LtInit /\ [][NextLt]_vars

\* The LoadTester whose callers add runners that start, with the known modes,
\* and update them with every InFlight from 0 to the first one rejected.
InfoInFlightVals == 0..LtMaxInFlight
InfoModes == ModeInputs \cap Modes

NextInfo ==
    \/ \E t \in LoadTypeInputs \cap LoadRegistry, n \in InfoInFlightVals, m \in InfoModes :
          AddRunner(t, n, m, FALSE)
    \/ \E id \in IdInputs : RemoveRunner(id)
    \/ \E id \in IdInputs, n \in InfoInFlightVals \cup LtInFlightVals, m \in InfoModes :
          UpdateRunner(id, n, m)
    \/ GetRunnersInfo

SpecInfo == LtInit /\ [][NextInfo]_vars

\* ------------------------------------------------------ LoadRunner actions

\* One LoadRunner and the context its caller passes to NewLoadRunner. Its
\* object in objs carries, beside the fields above: handle (NewLoadRunner
\* returned it), inits (successful Load.Init calls), passed (the context
\* passed to NewLoadRunner is cancelled), live (jobs inside Load.Job) and
\* closedLive (the jobs that were inside Load.Job at the last Load.Close).
LrId == "lr"
LrInFlightVals == 0..(LtMaxInFlight + 1)

\* NewLoadRunner(ctx, maxInFlight, &c, load): load.Init, then NewWorker; on
\* either error it returns nil and the error, and makes no other call.
NewLoadRunner(c, initFails) ==
    /\ LrId \notin DOMAIN objs
    /\ LET err == NewLoadRunnerErr(initFails, c)
       IN /\ objs' = Put(objs, LrId,
                         [handle |-> err = "", cancelled |-> FALSE, cfg |-> c,
                          loadCloses |-> 0, inits |-> IF initFails THEN 0 ELSE 1,
                          passed |-> FALSE, live |-> 0, closedLive |-> 0])
          /\ ltRes' = [NoRes EXCEPT !.op = "NewLoadRunner",
                                    !.res = IF err = "" THEN "ok" ELSE err]
    /\ UNCHANGED <<runners, nextRunnerID, idLog, wVars, concVars>>

\* The runner's context is context.WithCancelCause(context.Background()):
\* the ctx parameter is shadowed, and cancelling what the caller passed
\* reaches neither the runner's context nor the Worker's.
AfterPassedCancel(o) == [o EXCEPT !.passed = TRUE]

\* The caller cancels the context it passed to NewLoadRunner.
PassedCtxCancel ==
    /\ LrId \in DOMAIN objs /\ ~objs[LrId].passed
    /\ objs' = [objs EXCEPT ![LrId] = AfterPassedCancel(@)]
    /\ ltRes' = [NoRes EXCEPT !.op = "cancel"]
    /\ UNCHANGED <<runners, nextRunnerID, idLog, wVars, concVars>>

\* lr.SetConfig(&c) forwards to the Worker.
LrSetConfig(c) ==
    /\ LrId \in DOMAIN objs /\ objs[LrId].handle
    /\ LET err == RunnerSetConfigErr(objs[LrId], c)
       IN /\ objs' = IF err = "" THEN [objs EXCEPT ![LrId].cfg = c] ELSE objs
          /\ ltRes' = [NoRes EXCEPT !.op = "SetConfig", !.arg = <<c>>,
                                    !.res = IF err = "" THEN "ok" ELSE err]
    /\ UNCHANGED <<runners, nextRunnerID, idLog, wVars, concVars>>

\* lr.GetInfo() returns the Worker's config or its error.
LrGetInfo ==
    /\ LrId \in DOMAIN objs /\ objs[LrId].handle
    /\ LET err == GetInfoErr(objs[LrId])
       IN ltRes' = IF err = "" THEN [NoRes EXCEPT !.op = "GetInfo", !.res = "ok",
                                                 !.arg = <<objs[LrId].cfg>>]
                   ELSE [NoRes EXCEPT !.op = "GetInfo", !.res = err]
    /\ UNCHANGED <<runners, nextRunnerID, objs, idLog, wVars, concVars>>

\* The Worker launches a job, which enters Load.Job: while its context is
\* live and fewer than InFlight jobs are.
LrJobStart ==
    /\ LrId \in DOMAIN objs /\ objs[LrId].handle
    /\ ~objs[LrId].cancelled
    /\ objs[LrId].live < objs[LrId].cfg.InFlight
    /\ objs' = [objs EXCEPT ![LrId].live = @ + 1]
    /\ UNCHANGED <<runners, nextRunnerID, idLog, ltRes, wVars, concVars>>

\* A job returns from Load.Job, before or after the cancellation.
LrJobEnd ==
    /\ LrId \in DOMAIN objs /\ objs[LrId].live > 0
    /\ objs' = [objs EXCEPT ![LrId].live = @ - 1]
    /\ UNCHANGED <<runners, nextRunnerID, idLog, ltRes, wVars, concVars>>

\* lr.Close(): lr.cancel(lrClosed), then lr.load.Close() at once, whatever
\* jobs are still inside Load.Job.
LrClose ==
    /\ LrId \in DOMAIN objs /\ objs[LrId].handle
    /\ objs[LrId].loadCloses < MaxCloses
    /\ LET o == objs[LrId]
       IN objs' = [objs EXCEPT ![LrId] = [ClosedRunner(o) EXCEPT !.closedLive = o.live]]
    /\ ltRes' = [NoRes EXCEPT !.op = "Close", !.res = "ok"]
    /\ UNCHANGED <<runners, nextRunnerID, idLog, wVars, concVars>>

NextLr ==
    \/ \E n \in LrInFlightVals, m \in InfoModes, f \in BOOLEAN :
          NewLoadRunner(LtConfig(n, m), f)
    \/ PassedCtxCancel
    \/ \E n \in LrInFlightVals, m \in InfoModes : LrSetConfig(LtConfig(n, m))
    \/ LrGetInfo
    \/ LrJobStart
    \/ LrJobEnd
    \/ LrClose

SpecLr == LtInit /\ [][NextLr]_vars

\* ------------------------------------------- LoadTester operations, locked

\* One runner of a LoadTester and the operation that holds lt.mu: the worker
\* variables are the runner's Worker, built by AddRunner with the InFlight
\* its caller passes; cl is the UpdateRunner (SetConfig) or GetRunnersInfo
\* (GetConfig) that is inside the Worker call with the lock held, every other
\* caller waiting for the lock behind it.
LockInFlightVals == -1..LtMaxInFlight

\* RemoveRunner and Close take lt.mu.Lock() before runner.Close().
LockedClose ==
    /\ cl.pc = "idle"
    /\ Close

NextLock ==
    \/ \E n \in LockInFlightVals, m \in InfoModes :
          NewWorker(FALSE, <<LtMaxInFlight>>, <<LtConfig(n, m)>>)
    \/ LoopStart
    \/ LoopDone
    \/ LoopTimer
    \/ LoopDrop
    \/ LoopLaunch
    \/ LoopSetConfig
    \/ LoopGetConfig
    \/ JobReturn("ok")
    \/ \E n \in LockInFlightVals \cup LtInFlightVals, m \in InfoModes :
          SetConfigCall(LtConfig(n, m))
    \/ GetConfigCall
    \/ GetConfigReturn
    \/ LockedClose

\* The loop goroutine and the caller inside the Worker call are scheduled, an
\* armed timer fires, and a job returns.
SpecLock ==
    /\ Init /\ [][NextLock]_vars
    /\ WF_vars(LoopStart) /\ WF_vars(LoopDone) /\ WF_vars(LoopTimer) /\ WF_vars(LoopDrop)
    /\ WF_vars(LoopLaunch) /\ WF_vars(LoopSetConfig) /\ WF_vars(LoopGetConfig)
    /\ WF_vars(JobReturn("ok")) /\ WF_vars(GetConfigReturn)

\* ---------------------------------------------------------- legacy Runner

\* The Runner of runner.go, kept in objs under RunnerId: maxInflight,
\* Inflight and Rps (r.cfg), targetInFlight, timer and trigger (locals of
\* Run), tokens (len(r.tokens)), live (jobs inside r.do) and pc, the place of
\* the goroutine that called NewRunner and then Run. Mode is "stable"
\* whenever Rps is not 0.
RunnerId == "runner"
RunnerMaxVals == 0..(MaxMax + 1)
RunnerInflightVals == -1..(MaxMax + 2)
RpsVals == {0, 1}

\* r.setTimer(): nil when Rps is 0, a new timer otherwise.
LegacySetTimer(rps) == IF rps = 0 THEN "nil" ELSE "armed"

\* NewRunner(&RunnerConfig{Inflight: n, Rps: rps}, job, mx): the parameter
\* check, then cfg.Inflight sends on a channel of capacity mx, the first one
\* beyond mx blocking for good as nothing receives yet.
NewRunner(n, rps, mx) ==
    /\ RunnerId \notin DOMAIN objs
    /\ IF mx <= 0
       THEN /\ ltRes' = [NoRes EXCEPT !.op = "NewRunner", !.res = "invalid Runner parameters"]
            /\ objs' = objs
       ELSE /\ ltRes' = [NoRes EXCEPT !.op = "NewRunner", !.arg = <<n>>,
                                      !.res = IF n > mx THEN "" ELSE "ok"]
            /\ objs' = Put(objs, RunnerId,
                           [maxInflight |-> mx, Inflight |-> n, Rps |-> rps,
                            targetInFlight |-> n,
                            tokens |-> IF n > mx THEN mx ELSE Max2(n, 0), live |-> 0,
                            timer |-> "nil", trigger |-> FALSE,
                            pc |-> IF n > mx THEN "new" ELSE "start"])
    /\ UNCHANGED <<runners, nextRunnerID, idLog, wVars, concVars>>

\* Run, up to its loop.
RunStart ==
    /\ RunnerId \in DOMAIN objs /\ objs[RunnerId].pc = "start"
    /\ LET o == objs[RunnerId]
           t == LegacySetTimer(o.Rps)
       IN objs' = [objs EXCEPT ![RunnerId] =
                      [o EXCEPT !.timer = t, !.trigger = (t = "nil"),
                                !.targetInFlight = o.Inflight, !.pc = "select"]]
    /\ UNCHANGED <<runners, nextRunnerID, idLog, ltRes, wVars, concVars>>

\* case <-ctx.Done()
RunDone ==
    /\ RunnerId \in DOMAIN objs /\ objs[RunnerId].pc = "select"
    /\ objs' = [objs EXCEPT ![RunnerId].pc = "exited"]
    /\ ltRes' = [NoRes EXCEPT !.op = "cancel"]
    /\ UNCHANGED <<runners, nextRunnerID, idLog, wVars, concVars>>

\* case <-timer
RunTimer ==
    /\ RunnerId \in DOMAIN objs /\ objs[RunnerId].pc = "select"
    /\ objs[RunnerId].timer = "armed"
    /\ objs' = [objs EXCEPT ![RunnerId].timer = "drained", ![RunnerId].trigger = TRUE]
    /\ UNCHANGED <<runners, nextRunnerID, idLog, ltRes, wVars, concVars>>

\* case <-trigger: a pending decrease drops the permit, otherwise a job is
\* launched with it and a timer, if there is one, is set again.
RunTrigger ==
    /\ RunnerId \in DOMAIN objs /\ objs[RunnerId].pc = "select"
    /\ objs[RunnerId].trigger /\ objs[RunnerId].tokens > 0
    /\ LET o == objs[RunnerId]
       IN objs' = [objs EXCEPT ![RunnerId] =
                      IF o.targetInFlight < o.Inflight
                      THEN [o EXCEPT !.tokens = @ - 1, !.Inflight = @ - 1]
                      ELSE IF o.timer # "nil"
                      THEN [o EXCEPT !.tokens = @ - 1, !.live = @ + 1,
                                     !.trigger = FALSE, !.timer = LegacySetTimer(o.Rps)]
                      ELSE [o EXCEPT !.tokens = @ - 1, !.live = @ + 1]]
    /\ UNCHANGED <<runners, nextRunnerID, idLog, ltRes, wVars, concVars>>

\* for cfg.Inflight > r.cfg.Inflight && r.cfg.Inflight <= r.maxInflight:
\* a send on r.tokens, which blocks when the channel is full (pc "grow": only
\* this goroutine receives from it), then the two assignments.
RECURSIVE LegacyGrow(_, _)
LegacyGrow(o, n) ==
    IF n > o.Inflight /\ o.Inflight <= o.maxInflight
    THEN IF o.tokens = o.maxInflight
         THEN [o EXCEPT !.pc = "grow"]
         ELSE LegacyGrow([o EXCEPT !.tokens = @ + 1, !.Inflight = @ + 1,
                                   !.targetInFlight = o.Inflight + 1], n)
    ELSE o

\* r.SetConfig(ctx, &RunnerConfig{Inflight: n, Rps: rps}) and case cfg :=
\* <-r.cfgChan: the grow loop, the pending decrease, the pacing fields and
\* the timer.
RunSetConfig(n, rps) ==
    /\ RunnerId \in DOMAIN objs /\ objs[RunnerId].pc = "select"
    /\ LET g == LegacyGrow(objs[RunnerId], n)
           t == LegacySetTimer(rps)
       IN objs' = [objs EXCEPT ![RunnerId] =
                      IF g.pc = "grow" THEN g
                      ELSE [g EXCEPT !.targetInFlight = IF n < g.Inflight THEN Max2(0, n) ELSE @,
                                     !.Rps = rps, !.timer = t,
                                     !.trigger = IF t = "nil" THEN TRUE ELSE @]]
    /\ ltRes' = [NoRes EXCEPT !.op = "SetConfig", !.arg = <<n>>, !.res = "ok"]
    /\ UNCHANGED <<runners, nextRunnerID, idLog, wVars, concVars>>

\* A job returns and r.do's deferred send puts its permit back, when the
\* channel has room for it.
RunJobReturn ==
    /\ RunnerId \in DOMAIN objs /\ objs[RunnerId].live > 0
    /\ objs[RunnerId].tokens < objs[RunnerId].maxInflight
    /\ objs' = [objs EXCEPT ![RunnerId].live = @ - 1, ![RunnerId].tokens = @ + 1]
    /\ UNCHANGED <<runners, nextRunnerID, idLog, ltRes, wVars, concVars>>

\* r.GetConfig(ctx) and case respChan := <-r.readCfgChan: a copy of r.cfg.
RunGetConfig ==
    /\ RunnerId \in DOMAIN objs /\ objs[RunnerId].pc = "select"
    /\ ltRes' = [NoRes EXCEPT !.op = "GetConfig", !.res = "ok",
                              !.arg = <<objs[RunnerId].Inflight>>]
    /\ UNCHANGED <<runners, nextRunnerID, objs, idLog, wVars, concVars>>

NextRunner ==
    \/ \E n \in RunnerInflightVals, rps \in RpsVals, mx \in RunnerMaxVals : NewRunner(n, rps, mx)
    \/ RunStart
    \/ RunDone
    \/ RunTimer
    \/ RunTrigger
    \/ \E n \in RunnerInflightVals, rps \in RpsVals : RunSetConfig(n, rps)
    \/ RunGetConfig
    \/ RunJobReturn

SpecRunner == LtInit /\ [][NextRunner]_vars

\* ----------------------------------------------------------------- claims

\* C1: at every instant the number of live jobs is at most the largest
\* InFlight the configuration has held so far (stated for the instants at
\* which a job is live).
C1_LiveJobsWithinCeiling ==
    (phase = "running" /\ running > 0) => running <= maxSeen[1]

\* C2: a GetConfig that succeeds returns, in all four fields, the config of
\* the last SetConfig that returned success, also while a downsize to its
\* InFlight is still draining, and after two accepted SetConfig calls the
\* second one's.
C2_GetConfigReturnsLastSet ==
    (cl.pc = "idle" /\ cl.op = "GetConfig" /\ cl.res = "ok" /\ lastSet # <<>>)
        => cl.out = lastSet

\* C2 witness: a GetConfig has returned the last set config while the
\* downsize to its InFlight is still draining.
C2_Witness ==
    /\ cl.pc = "idle" /\ cl.op = "GetConfig" /\ cl.res = "ok"
    /\ lastSet # <<>> /\ cl.out = lastSet
    /\ currentInFlight > cfg.InFlight
    /\ running > 0

\* C3: a SetConfig whose config has InFlight < 0, Qps < 0, Timeout < 0 or
\* InFlight > MaxInFlight returns an error at once and hands nothing to the
\* loop, whose config, permits, currentInFlight, timer and trigger stay as
\* they were; a config that is valid, InFlight = MaxInFlight included, is
\* not rejected as invalid.
C3_SetConfigRejectsInvalid ==
    [][(cl.pc = "idle" /\ cl' # cl /\ cl'.op = "SetConfig") =>
          IF cl'.valid
          THEN cl'.res \notin InvalidErrs
          ELSE /\ cl'.pc = "idle"
               /\ cl'.res \in InvalidErrs
               /\ UNCHANGED <<cfg, tokens, currentInFlight, timer, trigger, lastSet>>]_vars

\* C3 witness: a config with InFlight = MaxInFlight was adopted while jobs
\* run, and a later SetConfig above the limit came back with the error.
C3_Witness ==
    /\ phase = "running" /\ loopPc = "select"
    /\ lastSet # <<>> /\ lastSet[1].InFlight = maxInFlight /\ cfg = lastSet[1]
    /\ cl.pc = "idle" /\ cl.op = "SetConfig" /\ cl.res = "InFlight < maxInFlight"

\* C4 as stated: once the context is cancelled by Close, every GetConfig and
\* every SetConfig called afterwards returns the Closed error and no config
\* is adopted.
C4_EveryCallReturnsClosed ==
    [][(cause = workerClosed /\ cl.pc = "idle" /\ cl' # cl /\ cl'.op \in {"SetConfig", "GetConfig"}) =>
          /\ cl'.pc = "idle"
          /\ cl'.res = workerClosed
          /\ cfg' = cfg]_vars

\* C4 as amended: once the context is cancelled, every GetConfig and every
\* SetConfig with a valid config called afterwards returns the cancellation
\* cause (the Closed error), a SetConfig with an invalid config returns its
\* validation error, and no config passed to SetConfig is handed to the loop
\* or adopted.
C4_CallsFailAfterClose ==
    [][(cause # "none" /\ cl.pc = "idle" /\ cl' # cl /\ cl'.op \in {"SetConfig", "GetConfig"}) =>
          /\ cl'.pc = "idle"
          /\ cfg' = cfg /\ lastSet' = lastSet
          /\ IF cl'.valid
             THEN cl'.res = cause /\ cause \in ClosedErrs
             ELSE cl'.res \in InvalidErrs]_vars

\* C4 witness: after Close a SetConfig came back with the Closed error while
\* the loop had not yet returned.
C4_Witness ==
    /\ phase = "running" /\ cause = workerClosed
    /\ loopPc \in {"select", "done"}
    /\ cl.pc = "idle" /\ cl.op = "SetConfig" /\ cl.res = workerClosed

\* C11: Close is idempotent and Terminated is absorbing: once the context is
\* cancelled, for as long as the process lives, its cause never changes, the loop that has returned stays
\* returned, a further Close changes nothing of the Worker, no config is
\* adopted, and every GetConfig and valid SetConfig called afterwards reports
\* the cause of the first cancellation.
C11_TerminatedAbsorbing ==
    [][(cause # "none" /\ phase' = "running") =>
          /\ cause' = cause
          /\ loopPc \in {"done", "exited"} => loopPc' \in {"done", "exited"}
          /\ loopPc = "exited" => loopPc' = "exited"
          /\ cfg' = cfg /\ lastSet' = lastSet
          /\ (cl.pc = "idle" /\ cl'.op = "Close" /\ cl' # cl) =>
                UNCHANGED <<phase, workerVars, cause, running, lastJob, lastSet, maxSeen>>
          /\ (cl.pc = "idle" /\ cl' # cl /\ cl'.op \in {"SetConfig", "GetConfig"}
                /\ cl'.valid) => (cl'.pc = "idle" /\ cl'.res = cause)]_vars

\* C11 witness: the parent context was cancelled, the loop returned, Close
\* was called after that, and the cause is still the parent's.
C11_Witness ==
    /\ phase = "running" /\ cause = parentCanceled /\ loopPc = "exited"
    /\ cl.pc = "idle" /\ cl.op = "Close"

\* C12: with InFlight = 0 and no pacing the loop launches no job for as long
\* as InFlight stays 0.
C12_NoLaunchAtZeroInFlight ==
    [][(phase = "running" /\ cfg.InFlight = 0 /\ cfg.IntervalGenerator = "nil"
          /\ cfg' = cfg) => running' <= running]_vars

\* C13: while the adopted config has Qps = 0 and the fixed or the exponential
\* generator, the loop runs as in ASAP mode: no timer is armed, the trigger is
\* bound to the token channel, so a token in the channel can always be taken;
\* the config keeps the generator that was set, and GetConfig reports it.
C13_ZeroQpsIsAsap ==
    (phase = "running" /\ loopPc \in {"select", "done", "exited"}
       /\ cfg.Qps = 0 /\ cfg.IntervalGenerator # "nil") =>
      /\ timer = "nil"
      /\ trigger
      /\ lastSet # <<>> => cfg = lastSet[1]
      /\ (cl.pc = "idle" /\ cl.op = "GetConfig" /\ cl.res = "ok") => cl.out = <<cfg>>

\* C13 witness: a config with Qps = 0 and the fixed generator was set while
\* the Worker ran, a job is live, no timer is armed, and GetConfig returned
\* the fixed generator.
C13_Witness ==
    /\ phase = "running" /\ loopPc = "select"
    /\ lastSet # <<>> /\ cfg = lastSet[1]
    /\ cfg.Qps = 0 /\ cfg.IntervalGenerator = "stable" /\ cfg.InFlight > 0
    /\ timer = "nil" /\ trigger /\ running > 0
    /\ cl.pc = "idle" /\ cl.op = "GetConfig" /\ cl.res = "ok"
    /\ cl.out[1].IntervalGenerator = "stable"

\* C14: with several goroutines calling SetConfig and GetConfig at once, the
\* config the Worker holds is the last one the loop took (the configs are
\* applied one at a time, in the order of applied), and every GetConfig that
\* succeeds returns, whole, a config that w.cfg held at some moment between
\* the call's invocation and its return: the initial config or the config of
\* one accepted SetConfig.
C14_ConfigLinearizable ==
    /\ cfg = IF applied = <<>> THEN DefaultConfig ELSE applied[Len(applied)]
    /\ \A p \in Callers :
         (callers[p].pc = "idle" /\ callers[p].op = "GetConfig" /\ callers[p].res = "ok") =>
            /\ callers[p].out # <<>>
            /\ callers[p].out[1] \in callers[p].seen
            /\ callers[p].out[1] \in
                  {DefaultConfig} \cup {applied[i] : i \in 1..Len(applied)}

\* C14 witness: two SetConfig calls were applied while a GetConfig was in
\* progress, and that GetConfig returned the first of the two configs, which
\* the Worker no longer holds.
C14_Witness ==
    /\ Len(applied) = 2 /\ applied[1] # applied[2] /\ cfg = applied[2]
    /\ \E p \in Callers :
         /\ callers[p].pc = "idle" /\ callers[p].op = "GetConfig" /\ callers[p].res = "ok"
         /\ callers[p].out = <<applied[1]>>
         /\ Cardinality(callers[p].seen) >= 2

\* C5: once the Worker's context is cancelled, by Close or by the parent, the
\* loop launches no further job.
C5_NoLaunchAfterCancel ==
    [][cause # "none" => running' <= running]_vars

\* C6: a job that panics does not end the Worker or the process hosting it.
C6_PanicIsolated ==
    phase # "crashed"

\* C7: every launched job that has returned made exactly one recorder call,
\* whose success flag says whether the job's error is nil.
C7_RecordedExactlyOnce ==
    (phase = "running" /\ lastJob # NoJob) =>
        /\ Len(lastJob.emissions) = 1
        /\ lastJob.emissions[1] = lastJob.errNil

\* C8: in every state of a constructed Worker the config satisfies
\* 0 <= InFlight <= MaxInFlight, Qps >= 0 and Timeout >= 0.
C8_ConfigInvariant ==
    phase = "running" => SpecValid(cfg, maxInFlight)

\* C9: NewWorker fails and starts no loop when the job is nil, MaxInFlight < 0
\* or the initial InFlight > MaxInFlight; otherwise it returns a running
\* Worker whose token pool holds exactly cfg.InFlight permits.
C9_NewWorkerContract ==
    LET bad == job = "nil" \/ maxInFlight < 0 \/ cfg.InFlight > maxInFlight
    IN /\ phase = "failed" => (bad /\ newErr # "" /\ loopPc = "start" /\ running = 0)
       /\ (phase = "running" /\ loopPc = "start") =>
              (~bad /\ newErr = "" /\ tokens = cfg.InFlight)

\* C10: NewWorker with MaxInFlight = 0 fails for every initial config, one
\* with InFlight = 0 included (stated for the configs whose fields are not
\* negative).
C10_ZeroMaxInFlightFails ==
    (phase # "init" /\ job = "func" /\ maxInFlight = 0 /\ IsValid(cfg) = "")
        => phase = "failed"

\* C15: every runner id AddRunner forms differs from every id it formed
\* earlier, whether the earlier call failed, or its runner was removed since.
C15_RunnerIdsUnique ==
    \A i, j \in 1..Len(idLog) : i # j => idLog[i] # idLog[j]

\* C15 witness: two ids were formed; the runner of the first was removed and
\* the second is registered.
C15_Witness ==
    /\ Len(idLog) = 2
    /\ idLog[1] \in DOMAIN objs /\ idLog[1] \notin DOMAIN runners
    /\ idLog[2] \in DOMAIN runners

\* C16: an AddRunner that fails (unknown load type, unknown mode, Load.Init
\* failed, or the Worker rejected the config) leaves the registry and every
\* runner as they were.
C16_FailedAddRunnerAddsNothing ==
    [][(ltRes'.op = "AddRunner" /\ ltRes'.res # "ok") =>
          /\ UNCHANGED <<runners, objs>>
          /\ ltRes'.res \in {"unknown load type", "unknown mode",
                              "failed to initialize load", "failed to create worker"}]_vars

\* C16 witness: with a runner registered, an AddRunner failed because the
\* Worker rejected its config.
C16_Witness ==
    /\ ltRes.op = "AddRunner" /\ ltRes.res = "failed to create worker"
    /\ DOMAIN runners # {}
    /\ ltRes.id[1] \notin DOMAIN runners

\* C17: UpdateRunner with an unknown mode fails Invalid, and with a known
\* mode on an id that is not registered fails NotFound; when it succeeds the
\* runner's Worker holds the new config and the stored mode is the new mode;
\* when it fails the registry, every mode tag and every Worker's config are
\* as they were.
C17_UpdateRunnerModeTag ==
    [][ltRes'.op = "UpdateRunner" =>
          LET id == ltRes'.id[1]
          IN /\ GeneratorErr(ltRes'.mode) # "" => ltRes'.res = "unknown mode"
             /\ (GeneratorErr(ltRes'.mode) = "" /\ id \notin DOMAIN runners) =>
                   ltRes'.res = "not found"
             /\ IF ltRes'.res = "ok"
                THEN /\ id \in DOMAIN runners /\ DOMAIN runners' = DOMAIN runners
                     /\ runners'[id].mode = ltRes'.mode
                     /\ objs'[id].cfg.IntervalGenerator = generator(ltRes'.mode)
                     /\ SpecValid(objs'[id].cfg, LtMaxInFlight)
                     /\ ~objs[id].cancelled
                ELSE UNCHANGED <<runners, objs>>]_vars

\* C17 witness: a registered runner was updated to static mode.
C17_Witness ==
    /\ ltRes.op = "UpdateRunner" /\ ltRes.res = "ok" /\ ltRes.mode = "static"
    /\ runners[ltRes.id[1]].mode = "static"
    /\ objs[ltRes.id[1]].cfg.IntervalGenerator = "stable"

\* C18: RemoveRunner of a registered id cancels that runner's Worker, closes
\* its Load and deletes the entry, the other runners staying as they were;
\* of any other id it fails NotFound and changes nothing; and a
\* GetRunnersInfo that succeeds lists the registered runners and none that
\* was removed.
C18_RemoveRunner ==
    [][/\ ltRes'.op = "RemoveRunner" =>
            LET id == ltRes'.id[1]
            IN IF id \in DOMAIN runners
               THEN /\ ltRes'.res = "ok"
                    /\ DOMAIN runners' = DOMAIN runners \ {id}
                    /\ \A k \in DOMAIN runners' : runners'[k] = runners[k]
                    /\ objs'[id].cancelled
                    /\ objs'[id].loadCloses = objs[id].loadCloses + 1
                    /\ \A k \in DOMAIN objs \ {id} : objs'[k] = objs[k]
               ELSE /\ ltRes'.res = "not found"
                    /\ UNCHANGED <<runners, objs>>
       /\ (ltRes'.op = "GetRunnersInfo" /\ ltRes'.res = "ok") =>
            /\ ltRes'.list = DOMAIN runners'
            /\ ltRes'.list \cap (DOMAIN objs' \ DOMAIN runners') = {}]_vars

\* C18 witness: after a runner was removed, and its Load closed once, a
\* GetRunnersInfo listed the one runner that is left.
C18_Witness ==
    /\ ltRes.op = "GetRunnersInfo" /\ ltRes.res = "ok"
    /\ Cardinality(ltRes.list) = 1
    /\ \E id \in DOMAIN objs \ DOMAIN runners :
         objs[id].cancelled /\ objs[id].loadCloses = 1

\* C19: after LoadTester.Close the registry is empty, and a GetRunnersInfo
\* made next succeeds with an empty list.
C19_CloseClearsRegistry ==
    [][/\ ltRes'.op = "Close" => DOMAIN runners' = {}
       /\ (ltRes.op = "Close" /\ ltRes'.op = "GetRunnersInfo") =>
             (ltRes'.res = "ok" /\ ltRes'.list = {})]_vars

\* C20: a LoadTester.Close that follows a LoadTester.Close succeeds and
\* leaves the registry, every Worker and every Load as they were.
C20_CloseIdempotent ==
    [][(ltRes.op = "Close" /\ ltRes'.op = "Close") =>
          (ltRes'.res = "ok" /\ UNCHANGED <<runners, objs>>)]_vars

C22_RunnersInfoEntries ==
    [][/\ (ltRes'.op = "GetRunnersInfo" /\ ltRes'.res = "ok") =>
            LET es == ltRes'.entries
            IN /\ Len(es) = Cardinality(DOMAIN runners)
               /\ {es[i].Id : i \in 1..Len(es)} = DOMAIN runners
               /\ \A i, j \in 1..Len(es) : i < j =>
                     /\ es[i].Id[1] = es[j].Id[1]
                     /\ LexLess(Digits(es[i].Id[2]), Digits(es[j].Id[2]))
               /\ \A i \in 1..Len(es) :
                     /\ es[i].Mode = runners[es[i].Id].mode
                     /\ es[i].WorkerCfg = objs[es[i].Id].cfg
       /\ (ltRes'.op = "UpdateRunner" /\ ltRes'.res = "ok") =>
            /\ runners'[ltRes'.id[1]].mode = ltRes'.mode
            /\ objs'[ltRes'.id[1]].cfg = ltRes'.arg[1]
            /\ ltRes'.arg[1].IntervalGenerator = generator(ltRes'.mode)]_vars

\* C22 witness: two runners are registered, the second was updated to another
\* InFlight and another mode than it was added with, and a GetRunnersInfo
\* listed both, the first id first, the second with the updated values.
C22_Witness ==
    /\ ltRes.op = "GetRunnersInfo" /\ ltRes.res = "ok"
    /\ Len(ltRes.entries) = 2
    /\ ltRes.entries[1].Id[2] < ltRes.entries[2].Id[2]
    /\ ltRes.entries[2].Mode = "static" /\ ltRes.entries[2].WorkerCfg.InFlight = 0
    /\ ltRes.entries[1].Mode = "asap" /\ ltRes.entries[1].WorkerCfg.InFlight = 1

\* C23: while a downsize is pending (currentInFlight > cfg.InFlight) every
\* permit the loop takes is dropped, currentInFlight going down by one, and
\* no job is launched; so while it is pending the number of live jobs does
\* not increase and is at most the largest InFlight the config has held.
C23_DownsizeDropsPermits ==
    [][(phase = "running" /\ phase' = "running" /\ loopPc \in {"select", "done"}
          /\ currentInFlight > cfg.InFlight) =>
          /\ running' <= running
          /\ tokens' < tokens =>
                (currentInFlight' = currentInFlight - 1 /\ running' = running)
          /\ running <= maxSeen[1]]_vars

\* C24: when InFlight was lowered, the Worker keeps running and the jobs in
\* flight return, the pending drops reach zero (or another config takes the
\* place of the lowered one), in ASAP mode and in paced mode; at the moment
\* they reach zero the number of live jobs is at most the new InFlight, and
\* it stays so while the config stays.
C24_DownsizeCompletes ==
    /\ (phase = "running" /\ currentInFlight > cfg.InFlight)
          ~> (currentInFlight <= cfg.InFlight)
    /\ [][(phase = "running" /\ loopPc = "select" /\ cfg' = cfg) =>
            /\ (currentInFlight > cfg.InFlight /\ currentInFlight' = cfg.InFlight) =>
                  running' <= cfg.InFlight
            /\ (currentInFlight = cfg.InFlight /\ maxSeen[1] > cfg.InFlight
                  /\ running <= cfg.InFlight) => running' <= cfg.InFlight]_vars

\* C25 as stated: in every state of a running Worker whose loop has started,
\* free_tokens + in_flight + pending_drops = currentInFlight, with
\* pending_drops = currentInFlight - cfg.InFlight when that is positive and 0
\* otherwise.
C25_TokensPlusPendingDrops ==
    (phase = "running" /\ loopPc # "start") =>
        tokens + running
          + (IF currentInFlight > cfg.InFlight THEN currentInFlight - cfg.InFlight ELSE 0)
          = currentInFlight

\* C25 as amended: once the loop of a running Worker has started,
\* free_tokens + in_flight - currentInFlight never changes; it starts at 0
\* when the Worker was constructed with InFlight >= 0, so that
\* free_tokens + in_flight = currentInFlight, the pending drops being part
\* of currentInFlight and not added to it.
C25_TokensInvariant ==
    [][/\ (phase = "running" /\ phase' = "running" /\ loopPc # "start") =>
            tokens' + running' - currentInFlight' = tokens + running - currentInFlight
       /\ (phase = "running" /\ loopPc = "start" /\ loopPc' # "start"
             /\ cfg.InFlight >= 0) =>
            tokens' + running' = currentInFlight']_vars

\* C25 witness: a downsize is pending while a job is live, and the free and
\* the held permits add up to currentInFlight.
C25_Witness ==
    /\ phase = "running" /\ loopPc = "select"
    /\ currentInFlight > cfg.InFlight /\ cfg.InFlight >= 0
    /\ running > 0
    /\ tokens + running = currentInFlight

\* C26 as stated, for the case it names last: when the loop adopts a config
\* whose InFlight is higher than that of the config it replaces while a
\* downsize to the replaced InFlight is still draining, it pushes exactly
\* new InFlight - previous InFlight permits in that iteration and does not
\* block.
C26_GrowPushesDifference ==
    [][(phase = "running" /\ cl.pc = "sendCfg" /\ cl'.pc = "idle" /\ cl'.res = "ok"
          /\ cfg'.InFlight > cfg.InFlight /\ currentInFlight > cfg.InFlight) =>
          /\ tokens' = tokens + (cfg'.InFlight - cfg.InFlight)
          /\ loopPc' = "select"]_vars

\* C26 as amended: when the loop adopts a config whose InFlight is higher
\* than that of the config it replaces, it pushes in that iteration no more
\* than new InFlight - currentInFlight permits (none when that is not
\* positive), each with an increment of currentInFlight; when the free and
\* the held permits add up to currentInFlight, as they do in a Worker
\* constructed with InFlight >= 0, it pushes exactly that many without
\* blocking and currentInFlight ends at least at the new InFlight; and that
\* number is new InFlight - previous InFlight when no downsize is draining.
C26_GrowPushesUpToTarget ==
    [][(phase = "running" /\ cl.pc = "sendCfg" /\ cl'.pc = "idle" /\ cl'.res = "ok"
          /\ cfg'.InFlight > cfg.InFlight) =>
          LET need == Max2(0, cfg'.InFlight - currentInFlight)
          IN /\ tokens' - tokens <= need /\ tokens' >= tokens
             /\ currentInFlight' - currentInFlight = tokens' - tokens
             /\ running' = running
             /\ (tokens + running = currentInFlight) =>
                   /\ tokens' = tokens + need
                   /\ currentInFlight' >= cfg'.InFlight
                   /\ loopPc' = "select"
             /\ (currentInFlight = cfg.InFlight) => need = cfg'.InFlight - cfg.InFlight]_vars

\* C26 witness: a config with a higher InFlight was adopted while the
\* downsize to the replaced one was still draining, with the job that holds
\* the permit still live: no permit was pushed.
C26_Witness ==
    /\ phase = "running" /\ loopPc = "select"
    /\ cl.pc = "idle" /\ cl.op = "SetConfig" /\ cl.res = "ok"
    /\ cl.was # <<>> /\ cl.was[1] < cfg.InFlight /\ cl.was[2] > cl.was[1]
    /\ cfg = lastSet[1]
    /\ currentInFlight = cl.was[2]
    /\ tokens + running = currentInFlight

\* C27: after the loop adopts a config whose generator yields a positive
\* interval, a timer is armed, the trigger is unbound, whatever it was before,
\* and no job is launched before that timer fires; after it adopts a config
\* with no generator or an interval of 0, no timer is pending and the trigger
\* is bound to the token channel.
C27_AdoptSetsTimerAndTrigger ==
    [][/\ (phase = "running" /\ cl.pc = "sendCfg" /\ cl'.pc = "idle" /\ cl'.res = "ok"
             /\ loopPc' = "select") =>
            IF timer' = "armed" THEN ~trigger' ELSE (timer' = "nil" /\ trigger')
       /\ (phase = "running" /\ timer = "armed" /\ timer' = "armed"
             /\ cl.pc = "idle" /\ cl.op = "SetConfig" /\ cl.res = "ok" /\ cl' = cl) =>
            running' <= running]_vars

\* C28: while the config is paced (a generator and Qps > 0), the loop holds a
\* timer (the last interval was positive) and no config is being adopted, a
\* job is launched only with the trigger bound, and the launch unbinds the
\* trigger and sets a new timer, armed when the new interval is positive;
\* the trigger is bound again only by the expiry of the armed timer, so
\* between two launches a timer expires; and a drop of a permit leaves the
\* timer and the trigger as they are.
C28_OneLaunchPerExpiry ==
    [][(phase = "running" /\ phase' = "running" /\ loopPc = "select"
          /\ cfg.IntervalGenerator # "nil" /\ cfg.Qps > 0 /\ cfg' = cfg
          /\ timer # "nil"
          /\ ~(cl.pc = "sendCfg" /\ cl'.pc = "idle" /\ cl'.res = "ok")) =>
          /\ running' > running =>
                /\ running' = running + 1
                /\ trigger /\ ~trigger'
                /\ timer' \in {"armed", "nil"}
                /\ cfg.IntervalGenerator = "stable" => timer' = "armed"
          /\ (~trigger /\ trigger') => (timer = "armed" /\ timer' = "drained")
          /\ (tokens' < tokens /\ running' = running) =>
                (currentInFlight' < currentInFlight /\ UNCHANGED <<timer, trigger>>)]_vars

\* C28 witness: a Worker constructed with the fixed generator and Qps > 0,
\* whose config was never replaced, has launched a job: its first timer has
\* expired, the trigger is unbound again and a new timer is armed.
C28_Witness ==
    /\ phase = "running" /\ loopPc = "select" /\ cause = "none"
    /\ lastSet = <<>> /\ cfg.IntervalGenerator = "stable" /\ cfg.Qps > 0
    /\ running > 0 /\ timer = "armed" /\ ~trigger

\* C29: every launched job puts exactly one permit back into the pool when
\* it returns, however it returns and also after the loop has exited, and
\* the send that gives the permit back never blocks: while a job is live
\* the token channel is not full.
C29_ReleaseNeverBlocks ==
    /\ [](phase = "running" /\ running > 0 => tokens < maxInFlight)
    /\ [][(phase = "running" /\ phase' = "running" /\ running' < running) =>
            (running' = running - 1 /\ tokens' = tokens + 1)]_vars

\* C30: the loop blocks nowhere but in its select: the pushes of a grow never
\* find the token channel full, so the loop is never held in the grow, and
\* the reply to a GetConfig is sent in the step that takes the request.
C30_LoopBlocksOnlyInSelect ==
    /\ [](phase = "running" => loopPc # "grow")
    /\ [][(phase = "running" /\ phase' = "running" /\ cl.pc = "sendRead" /\ cl'.pc # "sendRead"
            /\ cl'.res = "") => (cl'.pc = "gotResp" /\ cl'.out = <<cfg>>
                                  /\ loopPc' = "select")]_vars

\* C31: once the context of a running Worker is cancelled, by Close or by the
\* parent, the loop returns, whatever else its select finds ready.
C31_LoopExitsAfterCancel ==
    (phase = "running" /\ cause # "none") ~> (loopPc = "exited")

\* C32: no LoadTester operation is inside a call into a Worker with the
\* registry lock held: UpdateRunner has released it before SetConfig, and
\* GetRunnersInfo before it reads a runner's config.
C32_NoLockAcrossWorkerCall ==
    ltRes.op \in {"UpdateRunner", "GetRunnersInfo"} => ltRes.held = "none"

\* C33: whenever the loop of a running Worker is at its select, a timer is
\* pending or the trigger is bound to the token queue, also when the interval
\* drawn right after a launch in paced mode is 0.
C33_TimerPendingOrTriggerBound ==
    (phase = "running" /\ loopPc = "select") => (timer = "armed" \/ trigger)

\* C34: for a Worker constructed with 0 <= InFlight <= MaxInFlight, from the
\* start of the loop on and also after it has exited, the permits in the pool
\* plus the live jobs equal currentInFlight, which is at most MaxInFlight:
\* the loop's first step establishes both and every launch, return, drop,
\* grow and cancellation keeps them.
C34_PermitAccounting ==
    [][(/\ phase = "running" /\ phase' = "running" /\ loopPc' # "start"
        /\ IF loopPc = "start"
           THEN 0 <= cfg.InFlight /\ cfg.InFlight <= maxInFlight
           ELSE tokens + running = currentInFlight /\ currentInFlight <= maxInFlight) =>
          /\ tokens' + running' = currentInFlight'
          /\ currentInFlight' <= maxInFlight']_vars

\* C34 witness: a Worker started with a valid InFlight has terminated with a
\* job still live and a downsize still pending, after an accepted SetConfig,
\* and its permits add up.
C34_Witness ==
    /\ phase = "running" /\ loopPc = "exited" /\ cause # "none"
    /\ lastSet # <<>> /\ cfg.InFlight >= 0
    /\ running > 0 /\ currentInFlight > cfg.InFlight
    /\ tokens + running = currentInFlight /\ currentInFlight <= maxInFlight

\* C35: when NewLoadRunner returns an error after Load.Init has succeeded,
\* Load.Close has been invoked on that load.
C35_FailedNewLoadRunnerClosesLoad ==
    (/\ LrId \in DOMAIN objs /\ ~objs[LrId].handle
     /\ objs[LrId].inits > 0) => objs[LrId].loadCloses > 0

\* C36: once the context passed to NewLoadRunner is cancelled, the runner's
\* Worker is terminated, so that GetInfo and SetConfig fail and the contexts
\* of its in-flight jobs are cancelled.
C36_PassedContextCancels ==
    (/\ LrId \in DOMAIN objs /\ objs[LrId].handle
     /\ objs[LrId].passed) =>
        /\ objs[LrId].cancelled
        /\ ltRes.op \in {"GetInfo", "SetConfig"} => ltRes.res # "ok"

\* C37: LoadRunner.Close has cancelled the Worker when it invokes Load.Close,
\* and no job of the runner is inside Load.Job when Load.Close is invoked.
C37_LoadClosedAfterJobs ==
    (/\ LrId \in DOMAIN objs /\ objs[LrId].handle
     /\ objs[LrId].loadCloses > 0) =>
        /\ objs[LrId].cancelled
        /\ objs[LrId].closedLive = 0

\* C38: for every registered runner whose Worker is running, the stored mode
\* tag names the IntervalGenerator of the Worker's config, in the registry
\* between operations and in every list GetRunnersInfo returns, whatever
\* AddRunner and UpdateRunner calls, accepted or rejected, came before.
C38_ModeTagMatchesGenerator ==
    /\ \A id \in DOMAIN runners :
          ~objs[id].cancelled =>
              /\ runners[id].mode \in Modes
              /\ objs[id].cfg.IntervalGenerator = generator(runners[id].mode)
    /\ (ltRes.op = "GetRunnersInfo" /\ ltRes.res = "ok") =>
          \A i \in DOMAIN ltRes.entries :
              ltRes.entries[i].WorkerCfg.IntervalGenerator = generator(ltRes.entries[i].Mode)

\* C38 witness: an UpdateRunner to another mode was rejected by the Worker of
\* a running runner, whose tag and generator are those of the old mode,
\* beside a second running runner.
C38_Witness ==
    /\ ltRes.op = "UpdateRunner" /\ ltRes.res = "InFlight < maxInFlight"
    /\ ltRes.id[1] \in DOMAIN runners
    /\ ~objs[ltRes.id[1]].cancelled
    /\ ltRes.mode \in Modes /\ ltRes.mode # runners[ltRes.id[1]].mode
    /\ objs[ltRes.id[1]].cfg.IntervalGenerator = generator(runners[ltRes.id[1]].mode)
    /\ Cardinality(DOMAIN runners) > 1

\* C39: every LoadTester operation returns: the operation that is inside a
\* call into a runner's Worker with the registry lock held comes back from
\* it, so the callers waiting for the lock get it.
C39_OperationsReturn ==
    (cl.pc # "idle") ~> (cl.pc = "idle")

\* C40: in the legacy Runner, whatever SetConfig calls were made, the free
\* permits plus the permits held by live jobs are at most maxInflight, the
\* Run loop is not blocked in its grow push, and a returning job finds room
\* in the channel for its permit.
C40_LegacyPermitsWithinMax ==
    (RunnerId \in DOMAIN objs /\ objs[RunnerId].pc # "new") =>
        LET o == objs[RunnerId]
        IN /\ o.tokens + o.live <= o.maxInflight
           /\ o.pc # "grow"

====
